---- MODULE Spec2Model ----
(***************************************************************************)
(* A model of the WebSocket task gateway                                   *)
(*   src/worker/internal/adapters/websockets/tasks_handlers.go             *)
(* and of the gRPC remote-process client                                   *)
(*   src/internal/adapters/grpc/client/remote_process/remote_process_client.go *)
(*                                                                         *)
(* Spec      : one upgraded WebSocket connection (HandleConnection, its    *)
(*             ping goroutine, the inline create_task relay, the task      *)
(*             contexts and their watchers), with the client, the network, *)
(*             the clock and the task executor as environment.             *)
(***************************************************************************)
EXTENDS Integers, Sequences, FiniteSets, TLC

(***************************************************************************)
(* Bounds of the model.                                                    *)
(***************************************************************************)
\* output records an executor produces for one task
MaxOut == 2
\* action frames a client sends on one connection
MaxReqs == 2
\* largest timeout (in clock units) a create_task request carries
MaxTimeout == 1
\* capacity of the executor's output channel
ChanCap == 1
\* action frames the client has in flight (sent and not yet read)
MaxInbox == 1

(***************************************************************************)
(* Program constants.  One clock unit stands for 20 s: pongWait = 60 s.    *)
(***************************************************************************)
PongWait == 3
PingPeriod == (PongWait * 9) \div 10

VARIABLES
    loopPc,       \* position of the HandleConnection goroutine
    defers,       \* HandleConnection's stack of deferred calls
    readLeft,     \* time left until conn's read deadline
    inbox,        \* frames the client sent that the server has not read yet
    ctxCancelled, \* ctx of HandleConnection is cancelled
    pingPc,       \* position of the sendPing goroutine
    tickLeft,     \* time left until ticker.C fires
    sent,         \* the writes the handler of the last action attempted
    writeErr,     \* conn refuses writes (broken socket, close sent, closed)
    readErr,      \* conn refuses reads (broken socket, closed)
    pendingPing,  \* pings the client received and has not reacted to
    pongInTime,   \* the client sent a pong before the read deadline, unread yet
    exitCause,    \* why the read loop exited
    teardownLog,  \* the teardown steps performed, in order
    cur,          \* the action frame dispatched last
    nSent,        \* action frames the client has sent
    clientGone,   \* the client sent its last frame
    tasks,        \* per task id: its contexts and its watcher
    outputChan,   \* the records on the channel AddTask returned to the relay
    chanClosed,   \* the executor closed that channel
    produced,     \* records the executor put on that channel
    taskState,    \* the executor's state of the task being relayed
    nTasks,       \* task ids handed out by uuid.New
    addTaskCalls, \* calls of worker.AddTask
    curTask,      \* the task the inline relay is streaming
    out,          \* the message the HandleConnection goroutine is writing
    execErr       \* the executor call that failed in the last action, or ""

\* the Remote Process Client (StartProcess, StopProcess)
VARIABLES
    startPc,      \* position of the StartProcess call
    startErr,     \* the error StartProcess returned ("" for nil)
    startCtxDone, \* ctx of the StartProcess call is cancelled
    streamBuf,    \* responses the server sent that Recv has not returned yet
    srvSent,      \* responses the server has sent
    streamEnd,    \* how the server ended the stream: "open", "eof", "error"
    rxPc,         \* position of the receiver goroutine of StartProcess
    rxResp,       \* the response the receiver goroutine holds
    rxRecovered,  \* the deferred function of the receiver recovered a panic
    procChan,     \* outputChan of the StartProcess call
    closeCount,   \* executions of close(outputChan)
    consumer,     \* the caller's reader of outputChan
    delivered,    \* the responses the reader received
    streamOps,    \* the calls StartProcess made on its stream, in order
    stopPc,       \* position of the StopProcess call
    stopTimer,    \* the timer of the context StopProcess calls the server with
    stopCtxDone,  \* ctx of the StopProcess call is cancelled
    stopCause,    \* what ended the unary call
    srvAnswer,    \* the response the server gave to the unary call
    stopResult    \* what StopProcess returned

\* the Remote Process Client (MonitorHealth)
VARIABLES
    mhPc,         \* position of the MonitorHealth call
    mhErr,        \* the error MonitorHealth returned ("" for nil)
    mhPid,        \* processID of the call
    mhCtx,        \* ctx of the call: "live", or its Err(): "canceled", "deadline"
    mhBuf,        \* frames the server sent that Recv has not returned yet
    mhSrvSent,    \* frames the server has sent
    mhStreamEnd,  \* how the server ended the stream: "open", "eof", "error"
    hrPc,         \* position of the receiver goroutine of MonitorHealth
    hrResp,       \* the HealthStatus the receiver goroutine holds
    hrOutcome,    \* what the last stream.Recv of the receiver came to
    synthCount,   \* degraded records the receiver synthesized
    healthChan,   \* healthChan of the call
    healthReader, \* the caller's reader of healthChan
    healthSeen    \* the records the reader received

\* the monitored relay (streamTaskOutput)
VARIABLES
    monPc,        \* per task id: position of its streamTaskOutput
    monChan,      \* per task id: the records on its output channel
    monClosed,    \* per task id: the executor closed its output channel
    monProduced,  \* per task id: records the executor put on the channel
    stopTaskCalls,\* per task id: calls of worker.StopTask(taskID) by the relay
    completion,   \* per task id: what sendTaskCompletion did for the relay
    monFailed     \* per task id: a sendJSON of a task_output returned false

vars == <<loopPc, defers, readLeft, inbox, ctxCancelled, pingPc, tickLeft,
          sent, writeErr, readErr, pendingPing, pongInTime,
          exitCause,
          teardownLog, cur, nSent, clientGone, tasks, outputChan, chanClosed,
          produced, taskState, nTasks, addTaskCalls, curTask, out, execErr,
          startPc, startErr, startCtxDone, streamBuf, srvSent, streamEnd, rxPc,
          rxResp, rxRecovered, procChan, closeCount, consumer, delivered,
          streamOps, stopPc, stopTimer, stopCtxDone, stopCause, srvAnswer, stopResult,
          monPc, monChan, monClosed, monProduced, stopTaskCalls, completion,
          monFailed,
          mhPc, mhErr, mhPid, mhCtx, mhBuf, mhSrvSent, mhStreamEnd, hrPc,
          hrResp, hrOutcome, synthCount, healthChan, healthReader, healthSeen>>

connVars == <<loopPc, defers, inbox, ctxCancelled, sent, writeErr, readErr,
              exitCause, teardownLog, cur, curTask, out, execErr>>
timerVars == <<readLeft, tickLeft>>
clientVars == <<pendingPing, pongInTime, nSent, clientGone>>
taskVars == <<tasks, nTasks, addTaskCalls>>
execVars == <<outputChan, chanClosed, produced, taskState>>
wsVars == <<connVars, timerVars, pingPc, clientVars, taskVars, execVars>>
startVars == <<startPc, startErr, startCtxDone, streamBuf, srvSent, streamEnd,
               rxPc, rxResp, rxRecovered, procChan, closeCount, consumer,
               delivered, streamOps>>
stopVars == <<stopPc, stopTimer, stopCtxDone, stopCause, srvAnswer, stopResult>>
rpcVars == <<startVars, stopVars>>
monVars == <<monPc, monChan, monClosed, monProduced, stopTaskCalls,
            completion, monFailed>>
healthVars == <<mhPc, mhErr, mhPid, mhCtx, mhBuf, mhSrvSent, mhStreamEnd, hrPc,
                hrResp, hrOutcome, synthCount, healthChan, healthReader,
                healthSeen>>

TaskIds == 1..MaxReqs

(***************************************************************************)
(* Wire messages and client frames.                                        *)
(***************************************************************************)
\* one write on conn: who wrote it, for which task, and whether the writer
\* set a write deadline before writing
Msg(writer, action, task, n, code, status, deadline) ==
    [writer |-> writer, action |-> action, task |-> task, n |-> n,
     code |-> code, status |-> status, deadline |-> deadline, ok |-> TRUE]

NoMsg == Msg("none", "none", 0, 0, "", "", FALSE)

Names == {"", "hello"}
Images == {"", "demo"}

Frame(kind, decodable, name, image, timeout) ==
    [kind |-> kind, decodable |-> decodable, name |-> name, image |-> image,
     timeout |-> timeout]

NoFrame == Frame("none", TRUE, "", "", 0)

\* TaskRequest payloads of create_task
CreateFrames ==
    {Frame("create_task", FALSE, "", "", 0)}
    \cup {Frame("create_task", TRUE, n, i, 0) : n \in Names, i \in Images}
    \cup {Frame("create_task", TRUE, "hello", "demo", t) : t \in 1..MaxTimeout}

ActionFrames ==
    CreateFrames
    \cup {Frame("stop_task", d, "", "", 0) : d \in BOOLEAN}
    \cup {Frame("list_tasks", TRUE, "", "", 0), Frame("bogus", TRUE, "", "", 0)}

PongFrame == Frame("pong", TRUE, "", "", 0)
\* frames on which conn.ReadJSON returns an error
FatalFrames == {Frame(k, TRUE, "", "", 0) :
                  k \in {"garbage", "close_going_away", "close_other"}}

NoTask ==
    [made |-> FALSE, timeout |-> 0, left |-> 0,
     innerCancelled |-> FALSE, timeoutCancelled |-> FALSE, watcher |-> "none"]

\* a context timer that is not armed, and the absence of a result
NoTimer == [armed |-> FALSE, left |-> 0]
NoResult == [success |-> FALSE, message |-> "", err |-> ""]

\* sendTaskCompletion has not run
NoCompletion ==
    [calls |-> 0, resolved |-> "",
     msg |-> [action |-> "", status |-> "", code |-> "", error |-> ""]]

\* the absence of a HealthStatus
NoHealth == [processId |-> "", isRunning |-> FALSE, status |-> ""]

Init ==
    /\ loopPc = "upgrade"
    /\ defers = <<>>
    /\ readLeft = 0
    /\ inbox = <<>>
    /\ ctxCancelled = FALSE
    /\ pingPc = "none"
    /\ tickLeft = 0
    /\ sent = <<>>
    /\ writeErr = FALSE
    /\ readErr = FALSE
    /\ pendingPing = 0
    /\ pongInTime = FALSE
    /\ exitCause = "none"
    /\ teardownLog = <<>>
    /\ cur = NoFrame
    /\ nSent = 0
    /\ clientGone = FALSE
    /\ tasks = [t \in TaskIds |-> NoTask]
    /\ outputChan = <<>>
    /\ chanClosed = FALSE
    /\ produced = 0
    /\ taskState = "Scheduled"
    /\ nTasks = 0
    /\ addTaskCalls = 0
    /\ curTask = 0
    /\ out = NoMsg
    /\ execErr = ""
    /\ startPc = "idle"
    /\ startErr = ""
    /\ startCtxDone = FALSE
    /\ streamBuf = <<>>
    /\ srvSent = 0
    /\ streamEnd = "open"
    /\ rxPc = "none"
    /\ rxResp = 0
    /\ rxRecovered = FALSE
    /\ procChan = <<>>
    /\ closeCount = 0
    /\ consumer = "ranging"
    /\ delivered = <<>>
    /\ streamOps = <<>>
    /\ stopPc = "idle"
    /\ stopTimer = NoTimer
    /\ stopCtxDone = FALSE
    /\ stopCause = "none"
    /\ srvAnswer = NoResult
    /\ stopResult = NoResult
    /\ monPc = [t \in TaskIds |-> "none"]
    /\ monChan = [t \in TaskIds |-> <<>>]
    /\ monClosed = [t \in TaskIds |-> FALSE]
    /\ monProduced = [t \in TaskIds |-> 0]
    /\ stopTaskCalls = [t \in TaskIds |-> 0]
    /\ completion = [t \in TaskIds |-> NoCompletion]
    /\ monFailed = [t \in TaskIds |-> FALSE]
    /\ mhPc = "idle"
    /\ mhErr = ""
    /\ mhPid = ""
    /\ mhCtx = "live"
    /\ mhBuf = <<>>
    /\ mhSrvSent = 0
    /\ mhStreamEnd = "open"
    /\ hrPc = "none"
    /\ hrResp = NoHealth
    /\ hrOutcome = "none"
    /\ synthCount = 0
    /\ healthChan = <<>>
    /\ healthReader = "reading"
    /\ healthSeen = <<>>

(***************************************************************************)
(* Contexts.  The connection context ctx is the parent of every task       *)
(* context; a task context is done when it or an ancestor is cancelled.    *)
(***************************************************************************)
TaskCtxDone(t) ==
    /\ tasks[t].made
    /\ \/ ctxCancelled
       \/ tasks[t].innerCancelled
       \/ tasks[t].timeoutCancelled

\* createTaskFromRequest: context.WithCancel(parent), wrapped by
\* context.WithTimeout when req.Timeout > 0, and the watcher goroutine
createTaskFromRequest(req) ==
    [NoTask EXCEPT !.made = TRUE, !.timeout = req.timeout,
                   !.left = req.timeout, !.watcher = "waiting"]

\* the timer of context.WithTimeout is armed and has not fired
TimerArmed(t) ==
    /\ tasks[t].made
    /\ tasks[t].timeout > 0
    /\ ~tasks[t].timeoutCancelled

\* the timer of context.WithTimeout fires
TimerExpire(t) ==
    /\ TimerArmed(t)
    /\ tasks[t].left = 0
    /\ tasks' = [tasks EXCEPT ![t].timeoutCancelled = TRUE]
    /\ UNCHANGED <<connVars, timerVars, pingPc, clientVars, nTasks, addTaskCalls,
                   execVars, rpcVars, monVars, healthVars>>

\* a watcher that waits for the connection context instead of taskCtx
ParentCtxDone(t) == tasks[t].made /\ ctxCancelled

\* <-taskCtx.Done() of the watcher returns
WatchedCtxDone(t) == TaskCtxDone(t)

\* go func() { <-taskCtx.Done(); cancel() }(): cancel is the timeout
\* context's cancel function when there is a timeout, else the inner one's
Watcher(t) ==
    /\ tasks[t].watcher = "waiting"
    /\ WatchedCtxDone(t)
    /\ tasks' = [tasks EXCEPT
                   ![t].watcher = "exited",
                   ![t].timeoutCancelled = (tasks[t].timeout > 0) \/ @,
                   ![t].innerCancelled = (tasks[t].timeout = 0) \/ @]
    /\ UNCHANGED <<connVars, timerVars, pingPc, clientVars, nTasks, addTaskCalls,
                   execVars, rpcVars, monVars, healthVars>>

(***************************************************************************)
(* Socket writes.  A goroutine is inside a write from the step that starts *)
(* it to the step that ends it.                                            *)
(***************************************************************************)
LoopWriter ==
    CASE loopPc \in {"relayWrite", "doneWrite", "closeWrite"} -> {"relay"}
      [] loopPc = "send" -> {"sender"}
      [] loopPc = "tdCloseWrite" -> {"teardown"}
      [] OTHER -> {}

PingWriter == IF pingPc = "write" THEN {"ping"} ELSE {}

InWrite == LoopWriter \cup PingWriter

\* the writers that write with conn.WriteControl, which the connection
\* serialises itself against every other write
ControlWriters == {"teardown"}

\* the writers that call conn.SetWriteDeadline before they write
SetsWriteDeadline == {"ping", "sender", "teardown"}

\* the outcome of a write on conn
Written(m) == [m EXCEPT !.ok = ~writeErr]

\* after a close frame went out the connection may refuse further writes
AfterClose(m) == IF m.ok THEN {TRUE, FALSE} ELSE {TRUE}

(***************************************************************************)
(* HandleConnection.                                                       *)
(***************************************************************************)
Upgrade ==
    /\ loopPc = "upgrade"
    /\ \/ /\ loopPc' = "rejected"
          /\ UNCHANGED <<defers, timerVars, pingPc>>
       \/ /\ loopPc' = "read"
          /\ defers' = <<"closeConn", "cancel">>
          /\ readLeft' = PongWait
          /\ pingPc' = "select"
          /\ tickLeft' = PingPeriod
    /\ UNCHANGED <<inbox, ctxCancelled, sent, writeErr, readErr, exitCause,
                   teardownLog, cur, curTask, out, clientVars, taskVars, execVars,
                   rpcVars, monVars, execErr, healthVars>>

\* the pong handler runs inside conn.ReadJSON
ReadPong ==
    /\ loopPc = "read"
    /\ ~readErr /\ readLeft > 0
    /\ inbox # <<>> /\ Head(inbox).kind = "pong"
    /\ inbox' = Tail(inbox)
    /\ readLeft' = PongWait
    /\ pongInTime' = FALSE
    /\ UNCHANGED <<loopPc, defers, ctxCancelled, sent, writeErr, readErr,
                   exitCause, teardownLog, cur, curTask, out, pingPc, tickLeft,
                   pendingPing, nSent, clientGone, taskVars,
                   execVars, rpcVars, monVars, execErr, healthVars>>

\* conn.ReadJSON returns an error: the loop breaks and the defers run.  What
\* is left unread is never read, the read deadline no longer matters, and
\* the model stops following the last action and its output channel.
ReadFail ==
    /\ loopPc = "read"
    /\ \/ /\ readLeft = 0
          /\ exitCause' = "deadline"
       \/ /\ readLeft > 0 /\ readErr
          /\ exitCause' = "read_error"
       \/ /\ readLeft > 0 /\ ~readErr
          /\ inbox # <<>> /\ Head(inbox) \in FatalFrames
          /\ exitCause' = Head(inbox).kind
    /\ inbox' = <<>>
    /\ sent' = <<>>
    /\ cur' = NoFrame
    /\ curTask' = 0
    /\ execErr' = ""
    /\ outputChan' = <<>>
    /\ chanClosed' = FALSE
    /\ produced' = 0
    /\ taskState' = "Scheduled"
    /\ readLeft' = 0
    /\ loopPc' = "defer"
    /\ UNCHANGED <<defers, ctxCancelled, writeErr, readErr, teardownLog, out,
                   tickLeft, pingPc, clientVars, taskVars, rpcVars, monVars,
                   healthVars>>

CanDispatch(kinds) ==
    /\ loopPc = "read"
    /\ ~readErr /\ readLeft > 0
    /\ inbox # <<>> /\ Head(inbox) \in ActionFrames
    /\ Head(inbox).kind \in kinds

\* sendError(conn, code, ...) = sendJSON(conn, "task_error", ...)
ErrorMsg(code) == Msg("sender", "task_error", 0, 0, code, "", TRUE)

\* RejectCreate without the check of req.Image
RejectCreateNameOnly(req) ==
    IF ~req.decodable THEN "invalid_request"
    ELSE IF req.name = "" THEN "validation_error"
    ELSE ""

\* the checks of handleCreateTask before the task is created: the error code
\* to answer with, or "" to go on
RejectCreate(req) ==
    IF ~req.decodable THEN "invalid_request"
    ELSE IF req.name = "" \/ req.image = "" THEN "validation_error"
    ELSE ""

\* handleCreateTask up to the relay loop
DispatchCreateTask ==
    /\ CanDispatch({"create_task"})
    /\ LET req == Head(inbox)
           id == nTasks + 1
       IN /\ inbox' = Tail(inbox)
          /\ cur' = req
          /\ sent' = <<>>
          /\ IF RejectCreate(req) # ""
             THEN /\ out' = ErrorMsg(RejectCreate(req))
                  /\ execErr' = ""
                  /\ loopPc' = "send"
                  /\ curTask' = 0
                  /\ taskState' = "Scheduled"
                  /\ UNCHANGED taskVars
             ELSE /\ nTasks' = id
                  /\ tasks' = [tasks EXCEPT ![id] = createTaskFromRequest(req)]
                  /\ addTaskCalls' = addTaskCalls + 1
                  /\ \/ /\ execErr' = "AddTask"
                        /\ out' = ErrorMsg("create_error")
                        /\ loopPc' = "send"
                        /\ curTask' = 0
                        /\ taskState' = "Scheduled"
                     \/ /\ execErr' = ""
                        /\ loopPc' = "relay"
                        /\ curTask' = id
                        /\ taskState' = "Running"
                        /\ UNCHANGED out
          /\ outputChan' = <<>>
          /\ chanClosed' = FALSE
          /\ produced' = 0
    /\ UNCHANGED <<defers, ctxCancelled, writeErr, readErr, exitCause,
                   teardownLog, timerVars, pingPc, clientVars,
                   rpcVars, monVars, healthVars>>

\* handleStopTask that answers task_stopped whatever worker.StopTask returned
StopTaskReplyIgnoringErr(failed) ==
    Msg("sender", "task_stopped", 0, 0, "", "stopped", TRUE)

\* what handleStopTask answers once worker.StopTask returned
StopTaskReply(failed) ==
    IF failed THEN ErrorMsg("stop_error")
    ELSE Msg("sender", "task_stopped", 0, 0, "", "stopped", TRUE)

\* handleStopTask: worker.StopTask is called when the payload decodes, and
\* succeeds or fails
DispatchStopTask ==
    /\ CanDispatch({"stop_task"})
    /\ LET req == Head(inbox)
       IN /\ inbox' = Tail(inbox)
          /\ cur' = req
          /\ sent' = <<>>
          /\ IF ~req.decodable
             THEN /\ out' = ErrorMsg("invalid_request")
                  /\ execErr' = ""
             ELSE \E failed \in BOOLEAN :
                     /\ execErr' = IF failed THEN "StopTask" ELSE ""
                     /\ out' = StopTaskReply(failed)
          /\ loopPc' = "send"
          /\ curTask' = 0
    /\ UNCHANGED <<defers, ctxCancelled, writeErr, readErr, exitCause,
                   teardownLog, timerVars, pingPc, clientVars, taskVars, execVars,
                   rpcVars, monVars, healthVars>>

\* handleListTasks: worker.GetTasks succeeds or fails
DispatchListTasks ==
    /\ CanDispatch({"list_tasks"})
    /\ inbox' = Tail(inbox)
    /\ cur' = Head(inbox)
    /\ sent' = <<>>
    /\ \E failed \in BOOLEAN :
          /\ execErr' = IF failed THEN "GetTasks" ELSE ""
          /\ out' = IF failed THEN ErrorMsg("list_error")
                    ELSE Msg("sender", "task_list", 0, 0, "", "", TRUE)
    /\ loopPc' = "send"
    /\ curTask' = 0
    /\ UNCHANGED <<defers, ctxCancelled, writeErr, readErr, exitCause,
                   teardownLog, timerVars, pingPc, clientVars, taskVars, execVars,
                   rpcVars, monVars, healthVars>>

\* the default case of the switch
DispatchUnknown ==
    /\ CanDispatch({"bogus"})
    /\ inbox' = Tail(inbox)
    /\ cur' = Head(inbox)
    /\ sent' = <<>>
    /\ out' = ErrorMsg("unknown_action")
    /\ execErr' = ""
    /\ loopPc' = "send"
    /\ curTask' = 0
    /\ UNCHANGED <<defers, ctxCancelled, writeErr, readErr, exitCause,
                   teardownLog, timerVars, pingPc, clientVars, taskVars, execVars,
                   rpcVars, monVars, healthVars>>

\* sendJSON's conn.WriteJSON returns; the handler returns to the read loop
SendJSONEnd ==
    /\ loopPc = "send"
    /\ sent' = Append(sent, Written(out))
    /\ out' = NoMsg
    /\ loopPc' = "read"
    /\ UNCHANGED <<defers, inbox, ctxCancelled, writeErr, readErr, exitCause,
                   teardownLog, cur, curTask, timerVars, pingPc, clientVars,
                   taskVars, execVars, rpcVars, monVars, execErr, healthVars>>

(***************************************************************************)
(* The relay of handleCreateTask: for output := range outputChan.          *)
(***************************************************************************)
\* the final "done" message: its fields are the same whatever the task did
DoneMsg(t) == Msg("relay", "done", t, 0, "0", "FINISHED", FALSE)

RelayRecv ==
    /\ loopPc = "relay"
    /\ \/ /\ outputChan # <<>>
          /\ out' = Msg("relay", "task_output", curTask, Head(outputChan),
                        "", "", FALSE)
          /\ outputChan' = Tail(outputChan)
          /\ loopPc' = "relayWrite"
       \/ /\ outputChan = <<>> /\ chanClosed
          /\ out' = DoneMsg(curTask)
          /\ loopPc' = "doneWrite"
          /\ UNCHANGED outputChan
    /\ UNCHANGED <<defers, inbox, ctxCancelled, sent, writeErr, readErr,
                   exitCause, teardownLog, cur, curTask, timerVars, pingPc,
                   clientVars, taskVars, chanClosed, produced, taskState,
                   rpcVars, monVars, execErr, healthVars>>

\* AfterRelayWrite without the return on a write error
AfterRelayWriteNoReturn(failed) == "relay"

\* what the relay does after conn.WriteJSON(msg) returned
AfterRelayWrite(failed) == IF failed THEN "read" ELSE "relay"

\* conn.WriteJSON(msg) returns: on an error the handler returns
RelayWriteEnd ==
    /\ loopPc = "relayWrite"
    /\ sent' = Append(sent, Written(out))
    /\ out' = NoMsg
    /\ loopPc' = AfterRelayWrite(writeErr)
    /\ UNCHANGED <<defers, inbox, ctxCancelled, writeErr, readErr, exitCause,
                   teardownLog, cur, curTask, timerVars, pingPc, clientVars,
                   taskVars, execVars, rpcVars, monVars, execErr, healthVars>>

\* conn.WriteJSON(doneMsg) returns; the close frame is written next
DoneWriteEnd ==
    /\ loopPc = "doneWrite"
    /\ sent' = Append(sent, Written(out))
    /\ out' = Msg("relay", "close", out.task, 0, "1000", "", FALSE)
    /\ loopPc' = "closeWrite"
    /\ UNCHANGED <<defers, inbox, ctxCancelled, writeErr, readErr, exitCause,
                   teardownLog, cur, curTask, timerVars, pingPc, clientVars,
                   taskVars, execVars, rpcVars, monVars, execErr, healthVars>>

\* conn.WriteMessage(CloseMessage, ...) returns; handleCreateTask returns
CloseWriteEnd ==
    /\ loopPc = "closeWrite"
    /\ sent' = Append(sent, Written(out))
    /\ writeErr' \in AfterClose(Written(out))
    /\ out' = NoMsg
    /\ loopPc' = "read"
    /\ UNCHANGED <<defers, inbox, ctxCancelled, readErr, exitCause,
                   teardownLog, cur, curTask, timerVars, pingPc, clientVars,
                   taskVars, execVars, rpcVars, monVars, execErr, healthVars>>

(***************************************************************************)
(* Teardown: the deferred calls of HandleConnection.                       *)
(***************************************************************************)
\* NextDefer running the deferred calls first registered first
NextDeferFifo(stack) == 1

\* deferred calls run last registered first
NextDefer(stack) == Len(stack)

Remove(stack, i) == [j \in 1..(Len(stack) - 1) |->
                        IF j < i THEN stack[j] ELSE stack[j + 1]]

RunDefer ==
    /\ loopPc = "defer"
    /\ IF defers = <<>>
       THEN /\ loopPc' = "closed"
            /\ UNCHANGED <<defers, ctxCancelled, teardownLog, out>>
       ELSE LET i == NextDefer(defers)
            IN IF defers[i] = "cancel"
               THEN /\ ctxCancelled' = TRUE
                    /\ teardownLog' = Append(teardownLog, "cancel")
                    /\ defers' = Remove(defers, i)
                    /\ UNCHANGED <<loopPc, out>>
               ELSE /\ out' = Msg("teardown", "close", 0, 0, "1000", "", TRUE)
                    /\ loopPc' = "tdCloseWrite"
                    /\ defers' = Remove(defers, i)
                    /\ UNCHANGED <<ctxCancelled, teardownLog>>
    /\ UNCHANGED <<inbox, sent, writeErr, readErr, exitCause, cur, curTask,
                   timerVars, pingPc, clientVars, taskVars, execVars,
                   rpcVars, monVars, execErr, healthVars>>

\* conn.WriteControl(CloseMessage, ...) returns, then conn.Close()
TeardownClose ==
    /\ loopPc = "tdCloseWrite"
    /\ teardownLog' = teardownLog \o <<"close_frame", "release">>
    /\ writeErr' = TRUE
    /\ readErr' = TRUE
    /\ out' = NoMsg
    /\ loopPc' = "defer"
    /\ UNCHANGED <<defers, inbox, ctxCancelled, sent, exitCause, cur, curTask,
                   timerVars, pingPc, clientVars, taskVars, execVars,
                   rpcVars, monVars, execErr, healthVars>>

(***************************************************************************)
(* sendPing.                                                               *)
(***************************************************************************)
\* case <-ticker.C: SetWriteDeadline, then conn.WriteMessage(PingMessage)
PingTick ==
    /\ pingPc = "select"
    /\ tickLeft = 0
    /\ pingPc' = "write"
    /\ tickLeft' = PingPeriod
    /\ UNCHANGED <<connVars, readLeft, clientVars, taskVars, execVars,
                   rpcVars, monVars, healthVars>>

\* case <-ctx.Done()
PingCtxDone ==
    /\ pingPc = "select"
    /\ ctxCancelled
    /\ pingPc' = "exit"
    /\ tickLeft' = 0
    /\ UNCHANGED <<connVars, readLeft, clientVars, taskVars, execVars,
                   rpcVars, monVars, healthVars>>

\* conn.WriteMessage returns: an error ends the goroutine
PingWriteEnd ==
    /\ pingPc = "write"
    /\ pingPc' = IF writeErr THEN "exit" ELSE "select"
    /\ tickLeft' = IF writeErr THEN 0 ELSE tickLeft
    /\ pendingPing' = IF writeErr \/ clientGone \/ loopPc \notin
                           {"read", "send", "relay", "relayWrite",
                            "doneWrite", "closeWrite"}
                       THEN pendingPing ELSE 1
    /\ UNCHANGED <<connVars, readLeft, pongInTime, nSent,
                   clientGone, taskVars, execVars, rpcVars, monVars,
                   healthVars>>

(***************************************************************************)
(* Environment: the client, the network, the executor and the clock.       *)
(***************************************************************************)
\* the read loop runs: what the client sends can still be read
Serving == loopPc \in {"read", "send", "relay", "relayWrite", "doneWrite",
                       "closeWrite"}

ClientSend ==
    /\ Serving
    /\ ~readErr
    /\ ~clientGone
    /\ Len(SelectSeq(inbox, LAMBDA f : f.kind # "pong")) < MaxInbox
    /\ \/ /\ nSent < MaxReqs
          /\ \E f \in ActionFrames : inbox' = Append(inbox, f)
          /\ nSent' = nSent + 1
          /\ UNCHANGED clientGone
       \/ /\ \E f \in FatalFrames : inbox' = Append(inbox, f)
          /\ clientGone' = TRUE
          /\ UNCHANGED nSent
    /\ UNCHANGED <<loopPc, defers, ctxCancelled, sent, writeErr, readErr,
                   exitCause, teardownLog, cur, curTask, out, timerVars,
                   pingPc, pendingPing, pongInTime, taskVars,
                   execVars, rpcVars, monVars, execErr, healthVars>>

\* the client answers a ping at once (of pongs that arrive in a row the
\* model keeps one: the pong handler does the same for each) ...
ClientPong ==
    /\ Serving
    /\ pendingPing > 0
    /\ pendingPing' = 0
    /\ inbox' = IF inbox # <<>> /\ inbox[Len(inbox)] = PongFrame
                THEN inbox ELSE Append(inbox, PongFrame)
    /\ pongInTime' = (pongInTime \/ readLeft > 0)
    /\ UNCHANGED <<loopPc, defers, ctxCancelled, sent, writeErr, readErr,
                   exitCause, teardownLog, cur, curTask, out, timerVars,
                   pingPc, nSent, clientGone, taskVars, execVars,
                   rpcVars, monVars, execErr, healthVars>>

\* ... or lets it go unanswered
ClientIgnoresPing ==
    /\ pendingPing > 0
    /\ pendingPing' = 0
    /\ UNCHANGED <<connVars, timerVars, pingPc, pongInTime, nSent, clientGone,
                   taskVars, execVars, rpcVars, monVars, healthVars>>

\* the socket breaks: reads and writes fail from here on (a write in
\* progress fails like one started after the break)
NetworkBreak ==
    /\ loopPc \in {"read", "relay"}
    /\ ~readErr
    /\ readErr' = TRUE
    /\ writeErr' = TRUE
    /\ UNCHANGED <<loopPc, defers, inbox, ctxCancelled, sent, exitCause,
                   teardownLog, cur, curTask, out, timerVars, pingPc,
                   clientVars, taskVars, execVars, rpcVars, monVars, execErr,
                   healthVars>>

\* the relay of handleCreateTask is running
Relaying == loopPc \in {"relay", "relayWrite", "doneWrite", "closeWrite"}

\* the executor puts the next record on the output channel
ExecProduce ==
    /\ Relaying
    /\ ~chanClosed
    /\ produced < MaxOut
    /\ Len(outputChan) < ChanCap
    /\ produced' = produced + 1
    /\ outputChan' = Append(outputChan, produced + 1)
    /\ UNCHANGED <<connVars, timerVars, pingPc, clientVars, taskVars,
                   chanClosed, taskState, rpcVars, monVars, healthVars>>

\* the executor ends the task and closes the output channel
ExecClose ==
    /\ Relaying
    /\ ~chanClosed
    /\ chanClosed' = TRUE
    /\ taskState' \in {"Completed", "Failed", "Stopped"}
    /\ UNCHANGED <<connVars, timerVars, pingPc, clientVars, taskVars,
                   outputChan, produced, rpcVars, monVars, healthVars>>

Dec(n) == IF n > 0 THEN n - 1 ELSE 0

\* time passes while the HandleConnection goroutine waits for the client or
\* for the executor, unless something is due now: a blocked read returns as
\* soon as a frame or the deadline arrives, a blocked channel receive as soon
\* as the executor sends or closes, timers and the ticker fire on time, a
\* write takes no time, and the client reacts to a ping at once
Tick ==
    /\ loopPc \in {"read", "relay"}
    /\ pingPc # "write"
    /\ pendingPing = 0
    /\ ~(loopPc = "read" /\ (inbox # <<>> \/ readErr \/ readLeft = 0))
    /\ ~(loopPc = "relay" /\ (outputChan # <<>> \/ chanClosed))
    /\ ~(pingPc = "select" /\ (tickLeft = 0 \/ ctxCancelled))
    /\ \A t \in TaskIds : ~(TimerArmed(t) /\ tasks[t].left = 0)
    /\ readLeft' = Dec(readLeft)
    /\ tickLeft' = Dec(tickLeft)
    /\ tasks' = [t \in TaskIds |->
                   IF TimerArmed(t) THEN [tasks[t] EXCEPT !.left = Dec(@)]
                   ELSE tasks[t]]
    /\ UNCHANGED <<connVars, pingPc, clientVars, nTasks, addTaskCalls,
                   execVars, rpcVars, monVars, healthVars>>

Next ==
    \/ Upgrade
    \/ ReadPong
    \/ ReadFail
    \/ DispatchCreateTask
    \/ DispatchStopTask
    \/ DispatchListTasks
    \/ DispatchUnknown
    \/ SendJSONEnd
    \/ RelayRecv
    \/ RelayWriteEnd
    \/ DoneWriteEnd
    \/ CloseWriteEnd
    \/ RunDefer
    \/ TeardownClose
    \/ PingTick
    \/ PingCtxDone
    \/ PingWriteEnd
    \/ ClientSend
    \/ ClientPong
    \/ ClientIgnoresPing
    \/ NetworkBreak
    \/ ExecProduce
    \/ ExecClose
    \/ \E t \in TaskIds : TimerExpire(t)
    \/ \E t \in TaskIds : Watcher(t)
    \/ Tick

Spec == Init /\ [][Next]_vars

(***************************************************************************)
(* The Remote Process Client: StartProcess.  The caller passes ctx and     *)
(* outputChan and reads outputChan; the server is the other end of the     *)
(* stream.                                                                 *)
(***************************************************************************)
\* the caller invokes StartProcess
StartCall ==
    /\ startPc = "idle"
    /\ startPc' = "create"
    /\ UNCHANGED <<startErr, startCtxDone, streamBuf, srvSent, streamEnd, rxPc,
                   rxResp, rxRecovered, procChan, closeCount, consumer,
                   delivered, stopVars, wsVars, monVars, streamOps, healthVars>>

\* StartProcess returns err: nothing else happens on this path
StartReturnErr(err) ==
    /\ startPc' = "returned"
    /\ startErr' = err
    /\ UNCHANGED <<rxPc, closeCount, streamOps>>

\* stream, err := c.client.StartProcess(ctx)
StartCreateStream ==
    /\ startPc = "create"
    /\ \/ /\ ~startCtxDone
          /\ startPc' = "send"
          /\ UNCHANGED <<startErr, rxPc, closeCount, streamOps>>
       \/ StartReturnErr("error creating stream")
    /\ UNCHANGED <<startCtxDone, streamBuf, srvSent, streamEnd, rxResp,
                   rxRecovered, procChan, consumer, delivered, stopVars,
                   wsVars, monVars, healthVars>>

\* StartProcess sends the request again after it sent it
AfterSendAgain == "send"

\* after stream.Send succeeded StartProcess goes on to stream.CloseSend
AfterSend == "closeSend"

\* err = stream.Send(&pb.ProcessStartRequest{...})
StartSend ==
    /\ startPc = "send"
    /\ \/ /\ ~startCtxDone
          /\ startPc' = AfterSend
          /\ streamOps' = Append(streamOps, "Send")
          /\ UNCHANGED <<startErr, rxPc, closeCount>>
       \/ StartReturnErr("error sending request")
    /\ UNCHANGED <<startCtxDone, streamBuf, srvSent, streamEnd, rxResp,
                   rxRecovered, procChan, consumer, delivered, stopVars,
                   wsVars, monVars, healthVars>>

\* stream.CloseSend(), then go func() { ... }() and return nil
StartCloseSend ==
    /\ startPc = "closeSend"
    /\ \/ /\ startPc' = "returned"
          /\ startErr' = ""
          /\ rxPc' = "recv"
          /\ streamOps' = Append(streamOps, "CloseSend")
          /\ UNCHANGED closeCount
       \/ StartReturnErr("error closing send stream")
    /\ UNCHANGED <<startCtxDone, streamBuf, srvSent, streamEnd, rxResp,
                   rxRecovered, procChan, consumer, delivered, stopVars,
                   wsVars, monVars, healthVars>>

\* the request reached the server
Requested == startPc \in {"closeSend", "returned"} /\ startErr # "error sending request"

\* the server streams one ProcessOutput
ServerSend ==
    /\ Requested
    /\ streamEnd = "open"
    /\ ~startCtxDone
    /\ srvSent < MaxOut
    /\ srvSent' = srvSent + 1
    /\ streamBuf' = Append(streamBuf, srvSent + 1)
    /\ UNCHANGED <<startPc, startErr, startCtxDone, streamEnd, rxPc, rxResp,
                   rxRecovered, procChan, closeCount, consumer, delivered,
                   stopVars, wsVars, monVars, streamOps, healthVars>>

\* the server ends the stream, or the stream breaks
ServerEnd ==
    /\ Requested
    /\ streamEnd = "open"
    /\ \E e \in {"eof", "error"} : streamEnd' = e
    /\ UNCHANGED <<startPc, startErr, startCtxDone, streamBuf, srvSent, rxPc,
                   rxResp, rxRecovered, procChan, closeCount, consumer,
                   delivered, stopVars, wsVars, monVars, streamOps, healthVars>>

\* resp, err := stream.Recv() returns.  With ctx cancelled Recv fails, though
\* a response that already arrived may still win the race.
RxRecv ==
    /\ rxPc = "recv"
    /\ \/ /\ streamBuf # <<>>
          /\ rxResp' = Head(streamBuf)
          /\ streamBuf' = Tail(streamBuf)
          /\ streamOps' = Append(streamOps, "Recv")
          /\ rxPc' = "send"
       \/ /\ \/ startCtxDone
             \/ streamBuf = <<>> /\ streamEnd \in {"eof", "error"}
          /\ streamOps' = Append(streamOps,
                 IF ~startCtxDone /\ streamEnd = "eof" THEN "RecvEOF"
                 ELSE "RecvErr")
          /\ rxPc' = "deferred"
          /\ UNCHANGED <<rxResp, streamBuf>>
    /\ UNCHANGED <<startPc, startErr, startCtxDone, srvSent, streamEnd,
                   rxRecovered, procChan, closeCount, consumer, delivered,
                   stopVars, wsVars, monVars, healthVars>>

\* outputChan <- resp completes: the channel has room
RxSend ==
    /\ rxPc = "send"
    /\ Len(procChan) < ChanCap
    /\ procChan' = Append(procChan, rxResp)
    /\ rxPc' = "recv"
    /\ UNCHANGED <<startPc, startErr, startCtxDone, streamBuf, srvSent,
                   streamEnd, rxResp, rxRecovered, closeCount, consumer,
                   delivered, stopVars, wsVars, monVars, streamOps, healthVars>>

\* a panic inside the loop unwinds into the deferred function
RxPanic ==
    /\ rxPc = "recv"
    /\ rxRecovered' = TRUE
    /\ rxPc' = "deferred"
    /\ UNCHANGED <<startPc, startErr, startCtxDone, streamBuf, srvSent,
                   streamEnd, rxResp, procChan, closeCount, consumer,
                   delivered, stopVars, wsVars, monVars, streamOps, healthVars>>

\* the deferred function: recover(), then close(outputChan)
RxDeferred ==
    /\ rxPc = "deferred"
    /\ closeCount' = closeCount + 1
    /\ rxPc' = "done"
    /\ UNCHANGED <<startPc, startErr, startCtxDone, streamBuf, srvSent,
                   streamEnd, rxResp, rxRecovered, procChan, consumer,
                   delivered, stopVars, wsVars, monVars, streamOps, healthVars>>

\* the caller cancels ctx
StartCancel ==
    /\ startPc # "idle"
    /\ ~startCtxDone
    /\ startCtxDone' = TRUE
    /\ UNCHANGED <<startPc, startErr, streamBuf, srvSent, streamEnd, rxPc,
                   rxResp, rxRecovered, procChan, closeCount, consumer,
                   delivered, stopVars, wsVars, monVars, streamOps, healthVars>>

\* the reader of outputChan receives a response
ConsumerRecv ==
    /\ consumer = "ranging"
    /\ procChan # <<>>
    /\ delivered' = Append(delivered, Head(procChan))
    /\ procChan' = Tail(procChan)
    /\ UNCHANGED <<startPc, startErr, startCtxDone, streamBuf, srvSent,
                   streamEnd, rxPc, rxResp, rxRecovered, closeCount, consumer,
                   stopVars, wsVars, monVars, streamOps, healthVars>>

\* the reader finds outputChan closed and drained
ConsumerDone ==
    /\ consumer = "ranging"
    /\ procChan = <<>>
    /\ closeCount > 0
    /\ consumer' = "done"
    /\ UNCHANGED <<startPc, startErr, startCtxDone, streamBuf, srvSent,
                   streamEnd, rxPc, rxResp, rxRecovered, procChan, closeCount,
                   delivered, stopVars, wsVars, monVars, streamOps, healthVars>>

\* the reader goes away (its own client disconnected) and cancels ctx
ConsumerLeave ==
    /\ consumer = "ranging"
    /\ startPc # "idle"
    /\ consumer' = "gone"
    /\ startCtxDone' = TRUE
    /\ UNCHANGED <<startPc, startErr, streamBuf, srvSent, streamEnd, rxPc,
                   rxResp, rxRecovered, procChan, closeCount, delivered,
                   stopVars, wsVars, monVars, streamOps, healthVars>>

(***************************************************************************)
(* The Remote Process Client: StopProcess.  One clock unit is one second.  *)
(***************************************************************************)
StopTimeout == 5

Answers == {[success |-> s, message |-> m, err |-> ""] :
               s \in BOOLEAN, m \in {"stopped", "unknown process"}}

\* a context that never expires on its own
WithoutTimeout(d) == [armed |-> FALSE, left |-> d]

\* ctx, cancel := context.WithTimeout(ctx, d), the caller's ctx having no
\* deadline
WithTimeout(d) == [armed |-> TRUE, left |-> d]

\* the caller invokes StopProcess: the unary call starts under the derived ctx
StopCall ==
    /\ stopPc = "idle"
    /\ stopPc' = "rpc"
    /\ stopTimer' = WithTimeout(StopTimeout)
    /\ UNCHANGED <<stopCtxDone, stopCause, srvAnswer, stopResult, startVars,
                   wsVars, monVars, healthVars>>

\* what StopProcess returns for the outcome of c.client.StopProcess
StopReturn(response, err) ==
    IF err # "" THEN [success |-> FALSE, message |-> "",
                      err |-> "error stopping process"]
    ELSE [success |-> response.success, message |-> response.message,
          err |-> ""]

\* c.client.StopProcess returns (the deferred cancel releases the timer)
StopRpcReturns(cause, response, err) ==
    /\ stopPc' = "returned"
    /\ stopCause' = cause
    /\ stopResult' = StopReturn(response, err)
    /\ stopTimer' = NoTimer

\* the server answers the unary call
StopAnswer ==
    /\ stopPc = "rpc"
    /\ \E a \in Answers :
          /\ srvAnswer' = a
          /\ StopRpcReturns("answer", a, "")
    /\ UNCHANGED <<stopCtxDone, startVars, wsVars, monVars, healthVars>>

\* the call fails with a status from the server or the transport
StopRpcError ==
    /\ stopPc = "rpc"
    /\ StopRpcReturns("status", NoResult, "unavailable")
    /\ UNCHANGED <<stopCtxDone, srvAnswer, startVars, wsVars, monVars,
                   healthVars>>

\* a second passes
StopTick ==
    /\ stopPc = "rpc"
    /\ stopTimer.armed
    /\ stopTimer.left > 0
    /\ stopTimer' = [stopTimer EXCEPT !.left = @ - 1]
    /\ UNCHANGED <<stopPc, stopCtxDone, stopCause, srvAnswer, stopResult,
                   startVars, wsVars, monVars, healthVars>>

\* the timer of the derived ctx fires: the call fails with DeadlineExceeded
StopDeadline ==
    /\ stopPc = "rpc"
    /\ stopTimer.armed
    /\ stopTimer.left = 0
    /\ StopRpcReturns("deadline", NoResult, "deadline exceeded")
    /\ UNCHANGED <<stopCtxDone, srvAnswer, startVars, wsVars, monVars,
                   healthVars>>

\* the caller cancels its ctx
StopCancel ==
    /\ stopPc = "rpc"
    /\ ~stopCtxDone
    /\ stopCtxDone' = TRUE
    /\ UNCHANGED <<stopPc, stopTimer, stopCause, srvAnswer, stopResult,
                   startVars, wsVars, monVars, healthVars>>

\* the caller's ctx is done: the call fails with Canceled
StopCancelled ==
    /\ stopPc = "rpc"
    /\ stopCtxDone
    /\ StopRpcReturns("cancel", NoResult, "canceled")
    /\ UNCHANGED <<stopCtxDone, srvAnswer, startVars, wsVars, monVars,
                   healthVars>>

ClientNext ==
    \/ StartCall
    \/ StartCreateStream
    \/ StartSend
    \/ StartCloseSend
    \/ ServerSend
    \/ ServerEnd
    \/ RxRecv
    \/ RxSend
    \/ RxPanic
    \/ RxDeferred
    \/ StartCancel
    \/ ConsumerRecv
    \/ ConsumerDone
    \/ ConsumerLeave
    \/ StopCall
    \/ StopAnswer
    \/ StopRpcError
    \/ StopTick
    \/ StopDeadline
    \/ StopCancel
    \/ StopCancelled

\* The Go scheduler runs every runnable goroutine and the runtime fires every
\* timer: the receiver goroutine, the reader of outputChan while it ranges,
\* and the clock and timer of StopProcess keep going.  Nothing makes the
\* server or the caller act.
ClientSpec ==
    /\ Init
    /\ [][ClientNext]_vars
    /\ WF_vars(RxRecv)
    /\ WF_vars(RxSend)
    /\ WF_vars(RxDeferred)
    /\ WF_vars(ConsumerRecv)
    /\ WF_vars(ConsumerDone)
    /\ WF_vars(StopTick)
    /\ WF_vars(StopDeadline)
    /\ WF_vars(StopCancelled)

(***************************************************************************)
(* Properties of the connection (Spec).                                    *)
(***************************************************************************)
Indices(sq, P(_)) == {i \in 1..Len(sq) : P(sq[i])}

IsOutput(m) == m.action = "task_output"
IsDone(m) == m.action = "done"
\* the done message reports success: exit_code 0
ReportsSuccess(m) == m.action = "done" /\ m.code = "0"

\* C1: on one connection no two logical writers (ping ticker, create_task
\* relay, response/error sender, teardown close frame) are ever inside a
\* socket write at the same time.  The teardown's WriteControl is left out
\* of the count: the connection itself keeps it apart from the other writes.
\* (The claim adds that every write sets a write deadline first; the writes
\* of the relay do not: "relay" is not in SetsWriteDeadline.)
C1_SingleWriter == Cardinality(InWrite \ ControlWriters) <= 1

OutputsInOrder ==
    LET outs == SelectSeq(sent, IsOutput)
    IN /\ \A i \in 1..Len(outs) : outs[i].n = i /\ outs[i].task = curTask
       /\ \A i \in 1..(Len(outs) - 1) : outs[i].ok
       /\ Len(outs) + Len(outputChan) + (IF loopPc = "relayWrite" THEN 1 ELSE 0)
            = produced
       /\ loopPc = "relayWrite" => out.n = Len(outs) + 1

C3_SuccessOnlyIfCompleted ==
    \A i \in 1..Len(sent) :
        ReportsSuccess(sent[i]) => taskState = "Completed"

TeardownSteps == <<"cancel", "close_frame", "release">>

\* C6: teardown (cancel the connection context, send the close frame,
\* release the transport) runs exactly once, in this order, whatever made
\* the read loop exit, and not before the loop exits.
C6_TeardownOnce ==
    /\ Len(teardownLog) <= Len(TeardownSteps)
    /\ teardownLog = SubSeq(TeardownSteps, 1, Len(teardownLog))
    /\ loopPc = "closed" => teardownLog = TeardownSteps
    /\ loopPc \notin {"defer", "tdCloseWrite", "closed"} => teardownLog = <<>>
    /\ loopPc \in {"defer", "tdCloseWrite", "closed"} => exitCause # "none"
    /\ (teardownLog # <<>>) = ctxCancelled

C6_Witness ==
    /\ loopPc = "closed"
    /\ exitCause = "deadline"
    /\ teardownLog = TeardownSteps

\* C7: a client that answers the server's pings within the read-deadline
\* window is not treated as dead: on an unbroken socket the read loop does
\* not exit on the read deadline while a pong that the client sent before
\* the deadline is waiting to be read.
C7_PongKeepsAlive ==
    (loopPc = "defer" /\ exitCause = "deadline" /\ ~readErr) => ~pongInTime

InvalidCreate(f) ==
    f.kind = "create_task" /\ f.decodable /\ (f.name = "" \/ f.image = "")

MadeTasks == {t \in TaskIds : tasks[t].made}
Watchers == {t \in TaskIds : tasks[t].watcher # "none"}

C10_State ==
    InvalidCreate(cur) =>
        /\ loopPc \in {"send", "read"}
        /\ curTask = 0
        /\ loopPc = "send" =>
              sent = <<>> /\ out = ErrorMsg("validation_error")
        /\ loopPc = "read" =>
              /\ Len(sent) = 1
              /\ sent[1].action = "task_error"
              /\ sent[1].code = "validation_error"

C10_Step ==
    /\ InvalidCreate(cur') =>
          /\ nTasks' = nTasks
          /\ addTaskCalls' = addTaskCalls
          /\ MadeTasks' = MadeTasks
          /\ Watchers' = Watchers
          /\ execVars' = execVars \/ cur' # cur
    /\ (InvalidCreate(cur) /\ loopPc = "send") => loopPc' \in {"send", "read"}

\* C10: a create_task whose name or image is empty gets exactly one
\* task_error with code validation_error and nothing else; AddTask is not
\* invoked, no task context and no watcher is created, and the read loop
\* goes on reading.
C10_ValidationError == [](C10_State) /\ [][C10_Step]_vars

C10_Witness ==
    /\ InvalidCreate(cur) /\ cur.image = ""
    /\ loopPc = "read"
    /\ Len(sent) = 1 /\ sent[1].ok

(***************************************************************************)
(* Claims about the Remote Process Client, stated over ClientSpec.         *)
(***************************************************************************)
ReceiverActive == rxPc \in {"recv", "send"}

\* C4: once the reader of outputChan has gone away (and cancelled ctx) while
\* the receiver goroutine of StartProcess is active, the receiver eventually
\* terminates and outputChan is eventually closed.
C4_RelayTerminates ==
    (ReceiverActive /\ consumer = "gone") ~> (rxPc = "done" /\ closeCount > 0)

\* the StartProcess call reached a terminal state: it returned an error, or
\* its receiver goroutine has ended
StartTerminal ==
    /\ startPc = "returned"
    /\ startErr # "" \/ rxPc = "done"

\* C5: in every terminal state of a StartProcess call outputChan has been
\* closed exactly once.
C5_ClosedExactlyOnce == StartTerminal => closeCount = 1

\* what a returned StopProcess call hands to its caller
C9_Result ==
    stopPc = "returned" =>
        /\ stopCause = "deadline" =>
              /\ ~stopResult.success
              /\ stopResult.message = ""
              /\ stopResult.err # ""
        /\ stopCause = "answer" =>
              /\ stopResult.success = srvAnswer.success
              /\ stopResult.message = srvAnswer.message
              /\ stopResult.err = ""

\* C9: every StopProcess call eventually returns, whatever the server and
\* the caller's ctx do; when the local timeout ends it the call returns
\* (false, "", error), and when the server answers first it returns the
\* server's (success, message) and no error.
C9_StopReturns == (stopPc = "rpc" ~> stopPc = "returned") /\ []C9_Result

\* the server never answered, the caller never cancelled, and the call
\* returned
C9_Witness ==
    /\ stopPc = "returned"
    /\ stopCause = "deadline"
    /\ ~stopCtxDone
    /\ srvAnswer = NoResult

(***************************************************************************)
(* The monitored relay: streamTaskOutput runs for a task made by           *)
(* createTaskFromRequest, under that task's context.  Several tasks and    *)
(* their relays run side by side.  One clock unit is one second.           *)
(***************************************************************************)
\* a task is created from a request with the given timeout, the executor
\* takes it, and its output is handed to streamTaskOutput
MonStart ==
    /\ nTasks < MaxReqs
    /\ ~ctxCancelled
    /\ \E timeout \in 0..MaxTimeout :
          tasks' = [tasks EXCEPT ![nTasks + 1] =
                       createTaskFromRequest([timeout |-> timeout])]
    /\ nTasks' = nTasks + 1
    /\ addTaskCalls' = addTaskCalls + 1
    /\ monPc' = [monPc EXCEPT ![nTasks + 1] = "range"]
    /\ UNCHANGED <<connVars, timerVars, pingPc, clientVars, execVars, rpcVars,
                   monChan, monClosed, monProduced, stopTaskCalls, healthVars,
                   completion, monFailed>>

\* the connection context is cancelled (HandleConnection returned)
ConnCancel ==
    /\ nTasks > 0
    /\ ~ctxCancelled
    /\ ctxCancelled' = TRUE
    /\ UNCHANGED <<loopPc, defers, inbox, sent, writeErr, readErr, exitCause,
                   teardownLog, cur, curTask, out, timerVars, pingPc,
                   clientVars, taskVars, execVars, rpcVars, monVars, execErr,
                   healthVars>>

\* a second passes on the timers of the task contexts
MonTick ==
    /\ \E t \in TaskIds : TimerArmed(t) /\ tasks[t].left > 0
    /\ \A t \in TaskIds : TimerArmed(t) => tasks[t].left > 0
    /\ tasks' = [t \in TaskIds |->
                   IF TimerArmed(t) THEN [tasks[t] EXCEPT !.left = @ - 1]
                   ELSE tasks[t]]
    /\ UNCHANGED <<connVars, timerVars, pingPc, clientVars, nTasks,
                   addTaskCalls, execVars, rpcVars, monVars, healthVars>>

\* the executor puts a record of task t on its output channel
MonExecProduce(t) ==
    /\ monPc[t] # "none"
    /\ ~monClosed[t]
    /\ monProduced[t] < MaxOut
    /\ Len(monChan[t]) < ChanCap
    /\ monChan' = [monChan EXCEPT ![t] = Append(@, monProduced[t] + 1)]
    /\ monProduced' = [monProduced EXCEPT ![t] = @ + 1]
    /\ UNCHANGED <<wsVars, rpcVars, monPc, monClosed, stopTaskCalls,
                   healthVars, completion, monFailed>>

\* the executor ends task t and closes its output channel
MonExecClose(t) ==
    /\ monPc[t] # "none"
    /\ ~monClosed[t]
    /\ monClosed' = [monClosed EXCEPT ![t] = TRUE]
    /\ UNCHANGED <<wsVars, rpcVars, monPc, monChan, monProduced,
                   stopTaskCalls, healthVars, completion, monFailed>>

\* for output := range outputChan, then the call of h.sendJSON
MonRange(t) ==
    /\ monPc[t] = "range"
    /\ \/ /\ monChan[t] # <<>>
          /\ monChan' = [monChan EXCEPT ![t] = Tail(@)]
          /\ monPc' = [monPc EXCEPT ![t] = "sendJSON"]
       \/ /\ monChan[t] = <<>>
          /\ monClosed[t]
          /\ monPc' = [monPc EXCEPT ![t] = "completion"]
          /\ UNCHANGED monChan
    /\ UNCHANGED <<wsVars, rpcVars, monClosed, monProduced, stopTaskCalls,
                   healthVars, completion, monFailed>>

\* streamTaskOutput that goes on with the next record after a failed sendJSON
AfterSendJSONContinue(ok) == IF ok THEN "select" ELSE "range"

\* if !h.sendJSON(...) { return }: the deferred completion runs next
AfterSendJSON(ok) == IF ok THEN "select" ELSE "completion"

\* h.sendJSON returns: false makes streamTaskOutput return
MonSendJSONEnd(t) ==
    /\ monPc[t] = "sendJSON"
    /\ \E ok \in BOOLEAN :
          /\ monPc' = [monPc EXCEPT ![t] = AfterSendJSON(ok)]
          /\ monFailed' = [monFailed EXCEPT ![t] = @ \/ ~ok]
    /\ UNCHANGED <<wsVars, rpcVars, monChan, monClosed, monProduced,
                   stopTaskCalls, healthVars, completion>>

\* the relay goes on with the next record after it called StopTask
AfterStopTaskContinue == "range"

\* h.worker.StopTask(taskID) is followed by return
AfterStopTask == "completion"

\* select { case <-ctx.Done(): StopTask, return; default: WriteControl ping }
MonSelect(t) ==
    /\ monPc[t] = "select"
    /\ IF TaskCtxDone(t)
       THEN /\ stopTaskCalls' = [stopTaskCalls EXCEPT ![t] = @ + 1]
            /\ monPc' = [monPc EXCEPT ![t] = AfterStopTask]
       ELSE /\ monPc' = [monPc EXCEPT ![t] = "range"]
            /\ UNCHANGED stopTaskCalls
    /\ UNCHANGED <<wsVars, rpcVars, monChan, monClosed, monProduced,
                   healthVars, completion, monFailed>>

\* what h.worker.GetTask(taskID) comes to: an error, or the task's state
GetTaskResults == {"error", "Running", "Completed", "Failed", "Stopped"}

\* sendTaskCompletion that reports every task as completed
sendTaskCompletionAlwaysOk(r) ==
    [action |-> "task_completed", status |-> r, code |-> "COMPLETED",
     error |-> ""]

\* the envelope sendTaskCompletion sends when GetTask came to r
sendTaskCompletion(r) ==
    IF r = "error"
    THEN [action |-> "task_error", status |-> "", code |-> "task_error",
          error |-> "Error getting task status"]
    ELSE IF r = "Completed"
    THEN [action |-> "task_completed", status |-> r, code |-> "COMPLETED",
          error |-> ""]
    ELSE [action |-> "task_completed", status |-> r, code |-> "1",
          error |-> "Task failed to complete"]

\* defer h.sendTaskCompletion(ctx, conn, taskID)
MonCompletion(t) ==
    /\ monPc[t] = "completion"
    /\ monPc' = [monPc EXCEPT ![t] = "done"]
    /\ \E r \in GetTaskResults :
          completion' = [completion EXCEPT ![t] =
                            [calls |-> @.calls + 1, resolved |-> r,
                             msg |-> sendTaskCompletion(r)]]
    /\ UNCHANGED <<wsVars, rpcVars, monChan, monClosed, monProduced,
                   stopTaskCalls, healthVars, monFailed>>

StreamNext ==
    \/ MonStart
    \/ ConnCancel
    \/ MonTick
    \/ \E t \in TaskIds : TimerExpire(t)
    \/ \E t \in TaskIds : Watcher(t)
    \/ \E t \in TaskIds : MonExecProduce(t)
    \/ \E t \in TaskIds : MonExecClose(t)
    \/ \E t \in TaskIds : MonRange(t)
    \/ \E t \in TaskIds : MonSendJSONEnd(t)
    \/ \E t \in TaskIds : MonSelect(t)
    \/ \E t \in TaskIds : MonCompletion(t)

StreamSpec == Init /\ [][StreamNext]_vars

(***************************************************************************)
(* Claims about the task contexts and the monitored relay, stated over     *)
(* StreamSpec.                                                             *)
(***************************************************************************)
\* the timer of task t's context has run out
TimedOut(t) == tasks[t].made /\ tasks[t].timeout > 0 /\ tasks[t].left = 0

\* a task context is done only when the connection context is cancelled or
\* its own timeout has run out; once the timer has fired it is done; and the
\* monitored relay called StopTask at most once
C8_State ==
    \A t \in TaskIds :
        /\ TaskCtxDone(t) => (ctxCancelled \/ TimedOut(t))
        /\ tasks[t].timeoutCancelled => TaskCtxDone(t)
        /\ stopTaskCalls[t] <= 1

\* a step in which a timeout fires or a watcher runs leaves the connection
\* context as it was
C8_Step ==
    (\E t \in TaskIds : tasks'[t] # tasks[t] /\ tasks[t].made)
        => ctxCancelled' = ctxCancelled

\* C8: when the timeout of a create_task request expires, that task's
\* context is cancelled and no other context is (the connection context and
\* the other tasks' contexts stay live), and the monitored relay invokes
\* StopTask at most once for that task id.
C8_TimeoutCancelsOnlyTask == []C8_State /\ [][C8_Step]_vars

\* one task timed out and its relay stopped it, while the connection and
\* another task, created with a timeout too, are still live
C8_Witness ==
    \E t, u \in TaskIds :
        /\ t # u
        /\ tasks[t].timeoutCancelled
        /\ stopTaskCalls[t] = 1
        /\ monPc[t] = "done"
        /\ ~ctxCancelled
        /\ tasks[u].made /\ tasks[u].timeout > 0
        /\ ~TaskCtxDone(u)

(***************************************************************************)
(* Claims about the errors of dispatched actions, stated over Spec.        *)
(***************************************************************************)
\* the error code the action read last must be answered with, "" for none
ExpectedError ==
    CASE cur.kind \in {"create_task", "stop_task"} /\ ~cur.decodable
            -> "invalid_request"
      [] cur.kind = "create_task" /\ execErr = "AddTask" -> "create_error"
      [] cur.kind = "stop_task" /\ execErr = "StopTask" -> "stop_error"
      [] cur.kind = "list_tasks" /\ execErr = "GetTasks" -> "list_error"
      [] cur.kind = "bogus" -> "unknown_action"
      [] OTHER -> ""

C11_State ==
    /\ execErr # "" => ExpectedError # ""
    /\ ExpectedError # "" =>
          /\ loopPc \in {"send", "read"}
          /\ ~ctxCancelled /\ teardownLog = <<>>
          /\ curTask = 0
          /\ loopPc = "send" => sent = <<>> /\ out = ErrorMsg(ExpectedError)
          /\ loopPc = "read" =>
                /\ Len(sent) = 1
                /\ sent[1].action = "task_error"
                /\ sent[1].code = ExpectedError

C11_Step ==
    (ExpectedError # "" /\ loopPc = "send" /\ loopPc' # "send")
        => (loopPc' = "read" /\ cur' = cur)

\* C11: an undecodable payload, a failed AddTask, StopTask or GetTasks and an
\* unrecognized action name are each answered with exactly one task_error
\* carrying the matching code and with no other message, and the read loop
\* then goes on reading: the connection is not torn down.
C11_ErrorEnvelope == []C11_State /\ [][C11_Step]_vars

\* worker.StopTask failed, the stop_error went out, and the next action of
\* the client is waiting to be read
C11_Witness ==
    /\ cur.kind = "stop_task" /\ execErr = "StopTask"
    /\ loopPc = "read"
    /\ Len(sent) = 1 /\ sent[1].ok /\ sent[1].code = "stop_error"
    /\ inbox # <<>> /\ Head(inbox) \in ActionFrames

(***************************************************************************)
(* Claims about the stream of StartProcess, stated over ClientSpec.        *)
(***************************************************************************)
OpsOf(kinds) == {i \in 1..Len(streamOps) : streamOps[i] \in kinds}

C12_State ==
    /\ Cardinality(OpsOf({"Send"})) <= 1
    /\ OpsOf({"Send"}) \subseteq {1}
    /\ OpsOf({"CloseSend"}) \subseteq {2}
    /\ OpsOf({"CloseSend"}) # {} => OpsOf({"Send"}) = {1}
    /\ OpsOf({"Recv", "RecvEOF", "RecvErr"}) # {} => OpsOf({"CloseSend"}) = {2}
    /\ OpsOf({"RecvEOF", "RecvErr"}) \subseteq {Len(streamOps)}
    /\ rxPc # "none" => OpsOf({"CloseSend"}) = {2}

C12_Step ==
    /\ startPc = "returned" => startPc' = "returned"
    /\ rxPc \in {"deferred", "done"} =>
          (rxPc' \in {"deferred", "done"} /\ streamOps' = streamOps)

\* C12: a StartProcess call sends one start request and no more, half-closes
\* the send direction right after it and before the receiver's first
\* receive; after a receive error (or end-of-stream) the receiver neither
\* receives again nor is the stream opened again.
C12_OneShotStart == []C12_State /\ [][C12_Step]_vars

\* the receiver received a response, then a receive error ended it
C12_Witness ==
    /\ streamOps = <<"Send", "CloseSend", "Recv", "RecvErr">>
    /\ ~startCtxDone
    /\ rxPc = "done"

(***************************************************************************)
(* The Remote Process Client: MonitorHealth.  The caller passes ctx and    *)
(* healthChan and reads healthChan; the server is the other end of the     *)
(* stream.                                                                 *)
(***************************************************************************)
ProcessIds == {"p1", "p2"}

otherVars == <<wsVars, rpcVars, monVars>>

\* the caller invokes MonitorHealth for a process
MhCall ==
    /\ mhPc = "idle"
    /\ \E pid \in ProcessIds : mhPid' = pid
    /\ mhPc' = "create"
    /\ UNCHANGED <<mhErr, mhCtx, mhBuf, mhSrvSent, mhStreamEnd, hrPc, hrResp,
                   hrOutcome, synthCount, healthChan, healthReader,
                   healthSeen, otherVars>>

\* stream, err := c.client.MonitorHealth(ctx)
MhCreateStream ==
    /\ mhPc = "create"
    /\ \/ /\ mhCtx = "live"
          /\ mhPc' = "send"
          /\ UNCHANGED mhErr
       \/ /\ mhPc' = "returned"
          /\ mhErr' = "error creating stream"
    /\ UNCHANGED <<mhPid, mhCtx, mhBuf, mhSrvSent, mhStreamEnd, hrPc, hrResp,
                   hrOutcome, synthCount, healthChan, healthReader,
                   healthSeen, otherVars>>

\* err = stream.Send(&pb.HealthCheckRequest{...}), then go func() { ... }()
\* and return nil
MhSend ==
    /\ mhPc = "send"
    /\ \/ /\ mhCtx = "live"
          /\ mhPc' = "returned"
          /\ hrPc' = "select"
          /\ UNCHANGED mhErr
       \/ /\ mhPc' = "returned"
          /\ mhErr' = "error sending request"
          /\ UNCHANGED hrPc
    /\ UNCHANGED <<mhPid, mhCtx, mhBuf, mhSrvSent, mhStreamEnd, hrResp,
                   hrOutcome, synthCount, healthChan, healthReader,
                   healthSeen, otherVars>>

\* the caller cancels ctx, or the deadline of ctx passes
MhCtxEnd ==
    /\ mhPc # "idle"
    /\ mhCtx = "live"
    /\ \E e \in {"canceled", "deadline"} : mhCtx' = e
    /\ UNCHANGED <<mhPc, mhErr, mhPid, mhBuf, mhSrvSent, mhStreamEnd, hrPc,
                   hrResp, hrOutcome, synthCount, healthChan, healthReader,
                   healthSeen, otherVars>>

\* the server streams one HealthStatus of the monitored process
MhServerSend ==
    /\ hrPc # "none"
    /\ mhStreamEnd = "open"
    /\ mhCtx = "live"
    /\ mhSrvSent < MaxOut
    /\ mhSrvSent' = mhSrvSent + 1
    /\ mhBuf' = Append(mhBuf, [processId |-> mhPid, isRunning |-> TRUE,
                               status |-> "running"])
    /\ UNCHANGED <<mhPc, mhErr, mhPid, mhCtx, mhStreamEnd, hrPc, hrResp,
                   hrOutcome, synthCount, healthChan, healthReader,
                   healthSeen, otherVars>>

\* the server ends the stream, or the stream breaks
MhServerEnd ==
    /\ hrPc # "none"
    /\ mhStreamEnd = "open"
    /\ \E e \in {"eof", "error"} : mhStreamEnd' = e
    /\ UNCHANGED <<mhPc, mhErr, mhPid, mhCtx, mhBuf, mhSrvSent, hrPc, hrResp,
                   hrOutcome, synthCount, healthChan, healthReader,
                   healthSeen, otherVars>>

\* select { case <-ctx.Done(): return; default: ... }
HrSelect ==
    /\ hrPc = "select"
    /\ hrPc' = IF mhCtx # "live" THEN "done" ELSE "recv"
    /\ UNCHANGED <<mhPc, mhErr, mhPid, mhCtx, mhBuf, mhSrvSent, mhStreamEnd,
                   hrResp, hrOutcome, synthCount, healthChan, healthReader,
                   healthSeen, otherVars>>

\* resp, err := stream.Recv() returns; io.EOF makes the goroutine return.
\* With ctx done Recv fails, though a frame that already arrived may still
\* win the race.
HrRecv ==
    /\ hrPc = "recv"
    /\ \/ /\ mhBuf # <<>>
          /\ hrResp' = Head(mhBuf)
          /\ mhBuf' = Tail(mhBuf)
          /\ hrOutcome' = "frame"
          /\ hrPc' = "sendResp"
       \/ /\ mhCtx = "live" /\ mhBuf = <<>> /\ mhStreamEnd = "eof"
          /\ hrOutcome' = "eof"
          /\ hrPc' = "done"
          /\ UNCHANGED <<hrResp, mhBuf>>
       \/ /\ mhCtx # "live" \/ (mhBuf = <<>> /\ mhStreamEnd = "error")
          /\ hrOutcome' = "error"
          /\ hrPc' = "errCheck"
          /\ UNCHANGED <<hrResp, mhBuf>>
    /\ UNCHANGED <<mhPc, mhErr, mhPid, mhCtx, mhSrvSent, mhStreamEnd,
                   synthCount, healthChan, healthReader, healthSeen,
                   otherVars>>

\* the synthetic record, reporting the process as running
HealthDegradedRunning(pid) ==
    [processId |-> pid, isRunning |-> TRUE,
     status |-> "Error receiving response"]

\* &pb.HealthStatus{ProcessId: processID, IsRunning: false, Status: ...}
HealthDegraded(pid) ==
    [processId |-> pid, isRunning |-> FALSE,
     status |-> "Error receiving response"]

\* if ctx.Err() == context.Canceled { return }, else the degraded record is
\* made
HrErrCheck ==
    /\ hrPc = "errCheck"
    /\ IF mhCtx = "canceled"
       THEN /\ hrPc' = "done"
            /\ hrOutcome' = "canceled"
            /\ UNCHANGED <<hrResp, synthCount>>
       ELSE /\ hrPc' = "sendDegraded"
            /\ hrResp' = HealthDegraded(mhPid)
            /\ synthCount' = synthCount + 1
            /\ UNCHANGED hrOutcome
    /\ UNCHANGED <<mhPc, mhErr, mhPid, mhCtx, mhBuf, mhSrvSent, mhStreamEnd,
                   healthChan, healthReader, healthSeen, otherVars>>

\* a send that waits for room on healthChan whatever becomes of ctx
SendNeverAbandoned(ctx) == FALSE

\* case <-ctx.Done() of the select around a send to healthChan is ready
SendAbandoned(ctx) == ctx # "live"

\* select { case healthChan <- degraded: case <-ctx.Done(): }; return
HrSendDegraded ==
    /\ hrPc = "sendDegraded"
    /\ \/ /\ Len(healthChan) < ChanCap
          /\ healthChan' = Append(healthChan, hrResp)
       \/ /\ SendAbandoned(mhCtx)
          /\ UNCHANGED healthChan
    /\ hrPc' = "done"
    /\ UNCHANGED <<mhPc, mhErr, mhPid, mhCtx, mhBuf, mhSrvSent, mhStreamEnd,
                   hrResp, hrOutcome, synthCount, healthReader, healthSeen,
                   otherVars>>

\* select { case healthChan <- resp: case <-ctx.Done(): return }
HrSendResp ==
    /\ hrPc = "sendResp"
    /\ \/ /\ Len(healthChan) < ChanCap
          /\ healthChan' = Append(healthChan, hrResp)
          /\ hrPc' = "select"
       \/ /\ SendAbandoned(mhCtx)
          /\ hrPc' = "done"
          /\ UNCHANGED healthChan
    /\ UNCHANGED <<mhPc, mhErr, mhPid, mhCtx, mhBuf, mhSrvSent, mhStreamEnd,
                   hrResp, hrOutcome, synthCount, healthReader, healthSeen,
                   otherVars>>

\* the reader of healthChan receives a record
HealthReaderRecv ==
    /\ healthReader = "reading"
    /\ healthChan # <<>>
    /\ healthSeen' = Append(healthSeen, Head(healthChan))
    /\ healthChan' = Tail(healthChan)
    /\ UNCHANGED <<mhPc, mhErr, mhPid, mhCtx, mhBuf, mhSrvSent, mhStreamEnd,
                   hrPc, hrResp, hrOutcome, synthCount, healthReader,
                   otherVars>>

\* the reader stops reading healthChan
HealthReaderLeave ==
    /\ healthReader = "reading"
    /\ mhPc # "idle"
    /\ healthReader' = "gone"
    /\ UNCHANGED <<mhPc, mhErr, mhPid, mhCtx, mhBuf, mhSrvSent, mhStreamEnd,
                   hrPc, hrResp, hrOutcome, synthCount, healthChan,
                   healthSeen, otherVars>>

HealthNext ==
    \/ MhCall
    \/ MhCreateStream
    \/ MhSend
    \/ MhCtxEnd
    \/ MhServerSend
    \/ MhServerEnd
    \/ HrSelect
    \/ HrRecv
    \/ HrErrCheck
    \/ HrSendDegraded
    \/ HrSendResp
    \/ HealthReaderRecv
    \/ HealthReaderLeave

\* The Go scheduler runs the receiver goroutine whenever it can take a step.
\* Nothing makes the server, the caller or the reader of healthChan act.
HealthSpec ==
    /\ Init
    /\ [][HealthNext]_vars
    /\ WF_vars(HrSelect)
    /\ WF_vars(HrRecv)
    /\ WF_vars(HrErrCheck)
    /\ WF_vars(HrSendDegraded)
    /\ WF_vars(HrSendResp)

(***************************************************************************)
(* Claims about MonitorHealth, stated over HealthSpec.                     *)
(***************************************************************************)
HealthReceiverActive == hrPc \notin {"none", "done"}

\* C13: once ctx of MonitorHealth is done the receiver goroutine eventually
\* terminates, wherever it is: also when it is sending a health frame or the
\* degraded record to a healthChan that is full and that nobody reads.
C13_HealthReceiverEnds ==
    (HealthReceiverActive /\ mhCtx # "live") ~> (hrPc = "done")

\* the receiver gave up the send of a frame to a full healthChan that its
\* reader had left, because ctx was cancelled
C13_Witness ==
    /\ hrPc = "done"
    /\ hrOutcome = "frame"
    /\ mhCtx = "canceled"
    /\ healthReader = "gone"
    /\ Len(healthChan) = ChanCap
    /\ mhSrvSent > Len(healthChan) + Len(healthSeen) + Len(mhBuf)

IsDegraded(h) == h.status = "Error receiving response"

DegradedIn(sq) == {i \in 1..Len(sq) : IsDegraded(sq[i])}

\* C14, as claimed: whenever stream.Recv failed with an error other than
\* end-of-stream the receiver synthesized exactly one degraded record, and
\* after end-of-stream it synthesized none.
C14_DegradedOnError ==
    /\ (hrOutcome \in {"error", "canceled"} /\ hrPc \in {"sendDegraded", "done"})
          => synthCount = 1
    /\ hrOutcome = "eof" => synthCount = 0

C14_State ==
    /\ synthCount <= 1
    /\ (hrOutcome = "error" /\ hrPc \in {"sendDegraded", "done"})
          => synthCount = 1
    /\ hrOutcome \in {"none", "frame", "eof", "canceled"} => synthCount = 0
    /\ hrPc = "sendDegraded" =>
          /\ hrResp.processId = mhPid
          /\ ~hrResp.isRunning
          /\ IsDegraded(hrResp)
    /\ Cardinality(DegradedIn(healthChan)) + Cardinality(DegradedIn(healthSeen))
          <= synthCount
    /\ \A i \in DegradedIn(healthChan) :
          healthChan[i].processId = mhPid /\ ~healthChan[i].isRunning

C14_Step ==
    /\ synthCount' # synthCount => hrPc' = "sendDegraded"
    /\ (hrPc = "sendDegraded" /\ hrPc' # hrPc) =>
          /\ hrPc' = "done"
          /\ \/ healthChan' = Append(healthChan, hrResp)
             \/ mhCtx # "live" /\ healthChan' = healthChan

\* C14, amended: a receive error other than end-of-stream, met while
\* ctx.Err() is not context.Canceled, makes the receiver synthesize exactly
\* one degraded record (process id of the request, running=false, status =
\* error text) and attempt to deliver it to healthChan, racing ctx.Done(),
\* before it exits; end-of-stream and a receive error under a cancelled ctx
\* produce no synthetic record and end the loop.
C14_DegradedUnlessCancelled == []C14_State /\ [][C14_Step]_vars

\* the reader of healthChan received the degraded record of process p2
C14_Witness ==
    /\ mhPid = "p2"
    /\ hrPc = "done"
    /\ \E i \in DegradedIn(healthSeen) :
          healthSeen[i].processId = "p2" /\ ~healthSeen[i].isRunning

(***************************************************************************)
(* Claims about the monitored relay, stated over StreamSpec.               *)
(***************************************************************************)
InRelayLoop(t) == monPc[t] \in {"range", "sendJSON", "select"}

\* C15: when the context of a monitored relay is done while the relay is in
\* its loop, the relay has invoked StopTask for its task id by the time it
\* leaves the loop.  (Stated for the relays whose executor has not closed
\* the output channel: their task is still there to be stopped.)
C15_StopBeforeReturn ==
    [][\A t \in TaskIds :
          (/\ InRelayLoop(t) /\ TaskCtxDone(t) /\ ~monClosed[t]
           /\ monPc'[t] = "completion")
              => stopTaskCalls'[t] >= 1]_vars

Returned(t) == monPc[t] = "done"

\* C16, as claimed: a relay that returned called GetTask exactly once and
\* sent a task_completed envelope with the resolved status, exit_code
\* "COMPLETED" and no error if and only if the state is Completed, exit_code
\* "1" and an error for every other state.
C16_CompletionAlways ==
    \A t \in TaskIds : Returned(t) =>
        /\ completion[t].calls = 1
        /\ completion[t].msg.action = "task_completed"
        /\ completion[t].msg.status = completion[t].resolved
        /\ IF completion[t].resolved = "Completed"
           THEN completion[t].msg.code = "COMPLETED" /\ completion[t].msg.error = ""
           ELSE completion[t].msg.code = "1" /\ completion[t].msg.error # ""

\* C16, amended: on every exit of streamTaskOutput the relay calls GetTask
\* exactly once, and not before it exits.  When GetTask succeeds it sends a
\* task_completed envelope carrying the resolved status, with exit_code
\* "COMPLETED" and no error if and only if the state is Completed, and
\* exit_code "1" with a non-empty error for every other state.  When
\* GetTask fails it sends a task_error envelope with code task_error and no
\* task_completed envelope.
C16_CompletionIfResolved ==
    \A t \in TaskIds :
        /\ ~Returned(t) => completion[t] = NoCompletion
        /\ Returned(t) =>
              /\ completion[t].calls = 1
              /\ completion[t].resolved \in GetTaskResults
              /\ completion[t].resolved = "error" =>
                    /\ completion[t].msg.action = "task_error"
                    /\ completion[t].msg.code = "task_error"
              /\ completion[t].resolved # "error" =>
                    /\ completion[t].msg.action = "task_completed"
                    /\ completion[t].msg.status = completion[t].resolved
                    /\ (completion[t].resolved = "Completed") <=>
                          (completion[t].msg.code = "COMPLETED"
                             /\ completion[t].msg.error = "")
                    /\ completion[t].resolved # "Completed" =>
                          (completion[t].msg.code = "1"
                             /\ completion[t].msg.error # "")

\* one relay returned after a failed write and reported its task as
\* Stopped, another returned on the closed channel and reported Completed
C16_Witness ==
    \E t, u \in TaskIds :
        /\ Returned(t) /\ completion[t].resolved = "Stopped"
        /\ ~monClosed[t]
        /\ Returned(u) /\ completion[u].resolved = "Completed"
        /\ monClosed[u]

(***************************************************************************)
(* C17: nothing reaches the consumer once the caller's context is done.    *)
(***************************************************************************)

\* C17: once the context given to StartProcess is done, the receiver puts
\* no further ProcessOutput on outputChan.
C17_NoFrameAfterCancel ==
    [][startCtxDone => Len(procChan') <= Len(procChan)]_vars

(***************************************************************************)
(* C18: the read loop and the relay of a create_task.                      *)
(***************************************************************************)

\* a stop_task or list_tasks request is the next frame the socket holds
ControlRequestWaiting ==
    /\ inbox # <<>>
    /\ Head(inbox) \in ActionFrames
    /\ Head(inbox).kind \in {"stop_task", "list_tasks"}
    /\ ~readErr /\ readLeft > 0

\* C18: while the relay of a create_task is streaming, the read loop keeps
\* reading: a stop_task or list_tasks that the client sent on the same
\* connection can be dispatched without waiting for the relay to finish.
C18_ReadLoopIndependent ==
    (loopPc \in {"relay", "relayWrite"} /\ ControlRequestWaiting)
        => ENABLED (DispatchStopTask \/ DispatchListTasks)

(***************************************************************************)
(* C19: a failed write of a task_output.                                   *)
(***************************************************************************)

\* the writes of the create_task relay that failed on a task_output
FailedOutputs == Indices(sent, LAMBDA m : IsOutput(m) /\ ~m.ok)

\* the create_task relay: the failed task_output is its last write, and the
\* handler has left the relay
CreateRelayAborts ==
    (curTask # 0 /\ FailedOutputs # {}) =>
        /\ FailedOutputs = {Len(sent)}
        /\ ~Relaying

\* the create_task relay takes nothing from the output channel after a
\* failed write
CreateRelayStopsConsuming ==
    (curTask # 0 /\ FailedOutputs # {} /\ curTask' = curTask) =>
        Len(outputChan') >= Len(outputChan)

\* streamTaskOutput: after a failed sendJSON no task_output is written and
\* the range loop is not entered again
StreamRelayAborts ==
    \A t \in TaskIds : monFailed[t] => monPc[t] \in {"completion", "done"}

\* streamTaskOutput takes nothing from the output channel after a failed
\* sendJSON
StreamRelayStopsConsuming ==
    \A t \in TaskIds : monFailed[t] => Len(monChan'[t]) >= Len(monChan[t])

C19_CreateWitness ==
    /\ curTask # 0 /\ FailedOutputs # {} /\ loopPc = "read"
    /\ outputChan # <<>>

(***************************************************************************)
(* C20: the watchers and the task contexts of a connection while the       *)
(* executor runs the tasks.  The steps of streamTaskOutput are left out:   *)
(* they read the task context and change no context and no watcher.  The   *)
(* watcher goroutines are scheduled fairly.                                *)
(***************************************************************************)
CtxNext ==
    \/ MonStart
    \/ ConnCancel
    \/ MonTick
    \/ \E t \in TaskIds : TimerExpire(t)
    \/ \E t \in TaskIds : Watcher(t)
    \/ \E t \in TaskIds : MonExecProduce(t)
    \/ \E t \in TaskIds : MonExecClose(t)

CtxSpec ==
    Init /\ [][CtxNext]_vars /\ \A t \in TaskIds : WF_vars(Watcher(t))

\* the context made by context.WithCancel(parent) is released: it was
\* cancelled itself or through its parent
InnerReleased(t) == ctxCancelled \/ tasks[t].innerCancelled

\* the context made by context.WithTimeout(taskCtx, ...) is released
TimeoutReleased(t) == InnerReleased(t) \/ tasks[t].timeoutCancelled

\* the contexts of task t are all released
Released(t) ==
    InnerReleased(t) /\ (tasks[t].timeout > 0 => TimeoutReleased(t))

\* a watcher exits only when its task context is done, and calls the cancel
\* function it holds: the timeout context's when there is a timeout
C20_Step ==
    \A t \in TaskIds :
        (tasks[t].watcher = "waiting" /\ tasks'[t].watcher # "waiting") =>
            /\ TaskCtxDone(t)
            /\ tasks'[t].watcher = "exited"
            /\ IF tasks[t].timeout > 0
               THEN tasks'[t].timeoutCancelled
               ELSE tasks'[t].innerCancelled

RelayCloseSent ==
    /\ loopPc = "read" /\ curTask # 0
    /\ sent # <<>>
    /\ sent[Len(sent)].action = "close" /\ sent[Len(sent)].ok

\* C21: once the close frame of a create_task relay has been written, the
\* server attempts no further frame on the connection: the read loop
\* dispatches no further action (each of them writes a response or an
\* error) and the ping goroutine starts no further ping.
C21_NoFrameAfterClose ==
    [][RelayCloseSent =>
          /\ loopPc' \notin {"send", "relay"}
          /\ (pingPc = "select" => pingPc' # "write")]_vars

====
